---- MODULE Spec2Model ----
(***************************************************************************)
(* SmartMeet custom agent (vertex-ai-config/custom_agent/agent.py).        *)
(*                                                                         *)
(* The model follows one SmartMeetCustomAgent.query invocation: the agent   *)
(* object holds only project and location, which query never reads or      *)
(* writes, so every invocation starts from the same state.                 *)
(* query blocks in urlopen up to three times; the model has one action for *)
(* the code that runs from the call of query to the first urlopen, and one *)
(* action for the code that runs after each urlopen comes back (with a     *)
(* response, an HTTP error, a transport error, or another exception).      *)
(*                                                                         *)
(* Representation of Python values:                                        *)
(*   - a str is the sequence of its pieces (single characters for the      *)
(*     texts whose case matters, whole words for task names and URLs);     *)
(*     concatenation is \o, startswith is a prefix test on the sequence;   *)
(*   - a value decoded from JSON is a record [t |-> tag, v |-> payload];   *)
(*     a dict's payload is a set of <<key, value>> pairs, a list's payload *)
(*     a sequence of values, a str's payload its pieces;                   *)
(*   - Optional[str] is [some |-> BOOLEAN, s |-> str].                     *)
(***************************************************************************)
EXTENDS Integers, Sequences, FiniteSets, TLC

VARIABLES
    pc,            \* where the invocation is: idle / explicit_call /
                   \* decision_call / followup_call / returned / raised
    input,         \* query's argument input
    task,          \* query's argument task (Optional[str])
    params,        \* local params = parameters or {}
    trace_id,      \* local trace_id
    tool_calls,    \* local tool_calls
    errors,        \* local errors
    routed_task,   \* local routed_task
    decision_resp, \* local decision_resp (Unset before line 156 returns)
    next_action,   \* local next_action (Unbound before line 171 returns)
    posts,         \* the requests handed to urlopen by this invocation, in order
    resps,         \* what urlopen did for each of them, in order
    envelope,      \* the value query returned (Unset before it returns)
    raised         \* the exception that left query (Unset while none has)

vars == << pc, input, task, params, trace_id, tool_calls, errors, routed_task,
           decision_resp, next_action, posts, resps, envelope, raised >>

----------------------------------------------------------------------------
(* Bounds of the model *)

NumTraceIds == 2
MaxClock == 1

TraceIds == 1..NumTraceIds
Clock == 0..MaxClock

----------------------------------------------------------------------------
(* JSON / Python values *)

JNull == [t |-> "null", v |-> 0]
JBool(b) == [t |-> "bool", v |-> b]
JNum(n) == [t |-> "num", v |-> n]
JStr(s) == [t |-> "str", v |-> s]
JList(l) == [t |-> "list", v |-> l]
JDict(d) == [t |-> "dict", v |-> d]
JIso(sec, days) == [t |-> "iso", v |-> [utc_sec |-> sec, days |-> days]]

Unset == [t |-> "unset", v |-> 0]

IsDict(x) == x.t = "dict"

\* Python truthiness bool(x)
Truthy(x) ==
    CASE x.t = "null" -> FALSE
      [] x.t = "bool" -> x.v
      [] x.t = "num" -> x.v # 0
      [] x.t = "str" -> x.v # << >>
      [] x.t = "list" -> x.v # << >>
      [] x.t = "dict" -> x.v # {}
      [] OTHER -> TRUE

Has(d, k) == \E p \in d.v : p[1] = k
Get(d, k) == (CHOOSE p \in d.v : p[1] = k)[2]
\* dict.get(k, default)
GetOr(d, k, default) == IF Has(d, k) THEN Get(d, k) ELSE default

\* str.lower() on a str of single-character pieces
LowerChar(c) ==
    CASE c = "H" -> "h" [] c = "I" -> "i" [] c = "G" -> "g"
      [] c = "U" -> "u" [] c = "R" -> "r" [] c = "E" -> "e"
      [] c = "N" -> "n" [] c = "T" -> "t" [] c = "L" -> "l"
      [] c = "O" -> "o" [] c = "W" -> "w"
      [] OTHER -> c
\* the comparison without the call of lower()
LowerForgotten(s) == s
Lower(s) == [i \in 1..Len(s) |-> LowerChar(s[i])]

StartsWith(s, p) == Len(s) >= Len(p) /\ SubSeq(s, 1, Len(p)) = p

\* s.split(".", 1)[1], for an s that holds a "."
FirstDot(s) == CHOOSE i \in 1..Len(s) : s[i] = "." /\ \A j \in 1..(i - 1) : s[j] # "."
AfterFirstDot(s) == SubSeq(s, FirstDot(s) + 1, Len(s))

Min(a, b) == IF a <= b THEN a ELSE b
Last(s) == s[Len(s)]

----------------------------------------------------------------------------
(* Config, lines 25-60 (the defaults; no environment override is set) *)

PROJECT_ID == "smartmeet-470807"

CF_ENDPOINTS ==
    [ calendar |-> << "https://asia-northeast1-smartmeet-470807.cloudfunctions.net/calendarTool" >>,
      gmail |-> << "https://asia-northeast1-smartmeet-470807.cloudfunctions.net/gmailTool" >>,
      drive |-> << "https://asia-northeast1-smartmeet-470807.cloudfunctions.net/driveTool" >>,
      decision |-> << "https://asia-northeast1-smartmeet-470807.cloudfunctions.net/decisionTool" >>,
      data_pipeline |-> << "https://asia-northeast1-smartmeet-470807.cloudfunctions.net/dataPipeline" >> ]

BACKEND_BASE == << "https://smartmeet-backend-184930122798.asia-northeast1.run.app" >>

SHARED_SECRET == ""

----------------------------------------------------------------------------
(* Utils *)

_headers(tid) ==
    IF SHARED_SECRET # ""
    THEN [ ContentType |-> "application/json", XTraceId |-> tid,
           XProject |-> PROJECT_ID, XSharedSecret |-> SHARED_SECRET ]
    ELSE [ ContentType |-> "application/json", XTraceId |-> tid,
           XProject |-> PROJECT_ID ]

\* The urlrequest.Request that _post_json builds and hands to urlopen.
Request(url, payload, tid) ==
    [ url |-> url, data |-> payload, headers |-> _headers(tid), method |-> "POST" ]

\* What urlopen and resp.read().decode("utf-8") can do with a request:
\*   kind "body", wire "json"  : a 2xx response whose body is the JSON text of val
\*   kind "body", wire "text"  : a 2xx response whose body is UTF-8 but not JSON
\*   kind "body", wire "bytes" : a 2xx response whose body is not UTF-8; decode
\*                               raises UnicodeDecodeError (line 82, outside the
\*                               inner try of lines 83-86)
\*   kind "HTTPError"          : urlopen raises HTTPError(code, reason)
\*   kind "URLError"           : urlopen raises URLError (connection failure, or
\*                               a timeout while connecting or sending)
\*   kind "timeout"            : the socket times out while the response is
\*                               awaited or read; http.client raises
\*                               socket.timeout, which is not a URLError
Body(wire, val) == [ kind |-> "body", wire |-> wire, val |-> val, code |-> 0 ]
HttpError(code) == [ kind |-> "HTTPError", wire |-> "", val |-> JStr(<< "reason" >>), code |-> code ]
UrlError == [ kind |-> "URLError", wire |-> "", val |-> JStr(<< "urlopen error" >>), code |-> 0 ]
ReadTimeout == [ kind |-> "timeout", wire |-> "", val |-> JNull, code |-> 0 ]

Returns(x) == [ raised |-> FALSE, value |-> x, exc |-> Unset ]
Raises(e) == [ raised |-> TRUE, value |-> Unset, exc |-> e ]
Exception(type, msg) == [ t |-> "exception", v |-> [ type |-> type, msg |-> msg ] ]

\* str(x) for an exception or a dict
str(x) == [ str_of |-> x ]

\* _post_json once urlopen has done resp with the request
_post_json(resp) ==
    CASE resp.kind = "body" /\ resp.wire = "json" -> Returns(resp.val)
      [] resp.kind = "body" /\ resp.wire = "text" ->
            Returns(JDict({ << "success", JBool(TRUE) >>, << "text", resp.val >> }))
      [] resp.kind = "body" /\ resp.wire = "bytes" ->
            Raises(Exception("UnicodeDecodeError", << "'utf-8' codec can't decode" >>))
      [] resp.kind = "HTTPError" ->
            Returns(JDict({ << "success", JBool(FALSE) >>, << "status", JNum(resp.code) >>,
                            << "error", resp.val >> }))
      [] resp.kind = "URLError" ->
            Returns(JDict({ << "success", JBool(FALSE) >>, << "error", resp.val >> }))
      [] OTHER -> Raises(Exception("timeout", << "timed out" >>))

\* _ok without the test of the success key
_ok_truthiness_only(r) ==
    IF ~Truthy(r) THEN Returns(FALSE)
    ELSE IF ~IsDict(r)
         THEN Raises(Exception("AttributeError", << "object has no attribute 'get'" >>))
         ELSE Returns(TRUE)
\* _ok(r): bool(r) and r.get("success", True) is not False
_ok(r) ==
    IF ~Truthy(r) THEN Returns(FALSE)
    ELSE IF ~IsDict(r)
         THEN Raises(Exception("AttributeError", << "object has no attribute 'get'" >>))
         ELSE Returns(GetOr(r, "success", JBool(TRUE)) # JBool(FALSE))

----------------------------------------------------------------------------
(* Helpers *)

\* _safe_slice(obj, 6000): the text is cut only when it is longer than the
\* limit, and a proper prefix of the JSON text of a dict, list or str never
\* parses, so json.loads raises and obj itself is returned; a text within the
\* limit (every number and literal here) returns obj as well.
_safe_slice(obj) == obj

SafeStrLimit == 2000
_safe_str(x) == SubSeq(x, 1, Min(Len(x), SafeStrLimit))

_iso_now(now) == JIso(now, 0)
_iso_in_days(now, days) == JIso(now, days)

----------------------------------------------------------------------------
(* Agent *)

\* the body with the whole task as its action
ToolPayloadWholeTask(tsk, prm) ==
    JDict({ << "action", JStr(tsk) >>, << "parameters", prm >> })
\* lines 194-202: {"action": task.split(".", 1)[1], "parameters": params}
ToolPayload(tsk, prm) ==
    JDict({ << "action", JStr(AfterFirstDot(tsk)) >>, << "parameters", prm >> })

ToolRequest(ns, tsk, prm, tid) ==
    [ raised |-> FALSE, exc |-> Unset,
      req |-> Request(CF_ENDPOINTS[ns], ToolPayload(tsk, prm), tid) ]
BackendRequest(path, prm, tid) ==
    [ raised |-> FALSE, exc |-> Unset, req |-> Request(BACKEND_BASE \o << path >>, prm, tid) ]

\* _execute_task with a default route in place of the raise of line 210
_execute_task_default_route(tsk, prm, tid) ==
    CASE StartsWith(tsk, << "calendar", "." >>) -> ToolRequest("calendar", tsk, prm, tid)
      [] StartsWith(tsk, << "gmail", "." >>) -> ToolRequest("gmail", tsk, prm, tid)
      [] StartsWith(tsk, << "drive", "." >>) -> ToolRequest("drive", tsk, prm, tid)
      [] StartsWith(tsk, << "decision", "." >>) -> ToolRequest("decision", tsk, prm, tid)
      [] StartsWith(tsk, << "data_pipeline", "." >>) -> ToolRequest("data_pipeline", tsk, prm, tid)
      [] tsk = << "backend", ".", "minutes" >> ->
            BackendRequest("/api/agent/minutes/generate", prm, tid)
      [] tsk = << "backend", ".", "mindmap" >> ->
            BackendRequest("/api/speech/generate-mindmap", prm, tid)
      [] OTHER -> BackendRequest("/api/agent/minutes/generate", prm, tid)

\* _execute_task up to the urlopen of the _post_json it calls: either it raises
\* ValueError before any request is built, or req is the request it posts.
_execute_task(tsk, prm, tid) ==
    CASE StartsWith(tsk, << "calendar", "." >>) -> ToolRequest("calendar", tsk, prm, tid)
      [] StartsWith(tsk, << "gmail", "." >>) -> ToolRequest("gmail", tsk, prm, tid)
      [] StartsWith(tsk, << "drive", "." >>) -> ToolRequest("drive", tsk, prm, tid)
      [] StartsWith(tsk, << "decision", "." >>) -> ToolRequest("decision", tsk, prm, tid)
      [] StartsWith(tsk, << "data_pipeline", "." >>) -> ToolRequest("data_pipeline", tsk, prm, tid)
      [] tsk = << "backend", ".", "minutes" >> ->
            BackendRequest("/api/agent/minutes/generate", prm, tid)
      [] tsk = << "backend", ".", "mindmap" >> ->
            BackendRequest("/api/speech/generate-mindmap", prm, tid)
      [] OTHER ->
            [ raised |-> TRUE, exc |-> Exception("ValueError", << "Unknown task: " >> \o tsk),
              req |-> Unset ]

CalendarMaxResults == 50
GmailMaxResults == 20
CalendarWindowDays == 7

\* next_action: not yet assigned, None, or a (task, params) tuple
Unbound == [ bound |-> FALSE, some |-> FALSE, task |-> << >>, params |-> JDict({}) ]
NoAction == [ bound |-> TRUE, some |-> FALSE, task |-> << >>, params |-> JDict({}) ]
Action(tsk, prm) == [ bound |-> TRUE, some |-> TRUE, task |-> tsk, params |-> prm ]

\* (result or {}).get("urgencyLevel", "") for a result the code can call .get on
Urgency(result) ==
    GetOr(IF Truthy(result) THEN result ELSE JDict({}), "urgencyLevel", JStr(<< >>))

\* _suggest_next_action; now1 and now2 are the clock readings of _iso_now() and
\* _iso_in_days(7).
_suggest_next_action(resp, now1, now2) ==
    IF ~IsDict(resp) THEN NoAction
    ELSE LET nested == GetOr(resp, "result", JNull)
             result == IF Truthy(nested) THEN nested ELSE resp
         IN  IF Truthy(result) /\ ~IsDict(result) THEN NoAction
             ELSE IF Urgency(result).t = "str"
                       /\ Lower(Urgency(result).v) \in { << "h", "i", "g", "h" >>,
                                                         << "u", "r", "g", "e", "n", "t" >> }
                  THEN Action(<< "calendar", ".", "get_events" >>,
                              JDict({ << "timeMin", _iso_now(now1) >>,
                                      << "timeMax", _iso_in_days(now2, CalendarWindowDays) >>,
                                      << "maxResults", JNum(CalendarMaxResults) >> }))
                  ELSE Action(<< "gmail", ".", "search_emails" >>,
                              JDict({ << "query", JStr(<< "meeting" >>) >>,
                                      << "maxResults", JNum(GmailMaxResults) >> }))

\* line 183: routed_task or next_action[0] if next_action else ""
RoutedTaskOut(rt, na) ==
    IF na.some THEN (IF rt # << >> THEN rt ELSE na.task) ELSE << >>

DecisionTask == << "decision", ".", "analyze_situation" >>

\* lines 155-156: the request of the automatic analysis
AnalysisRequest(inp, tid) ==
    Request(CF_ENDPOINTS["decision"],
            JDict({ << "action", JStr(<< "analyze_situation" >>) >>,
                    << "parameters", JDict({ << "context", JStr(inp) >> }) >> }),
            tid)

ToolCall(tsk, prm, result) == [ task |-> tsk, params |-> prm, result |-> _safe_slice(result) ]
ErrorRecord(tsk, msg) == [ task |-> tsk, message |-> msg ]

Envelope(tid, inp, rt, calls, out, errs) ==
    [ traceId |-> tid, input |-> inp, routedTask |-> rt, toolCalls |-> calls,
      output |-> out, errors |-> errs ]

----------------------------------------------------------------------------
(* Inputs: the arguments of query and the behaviours of the endpoints *)

Inputs == { << >>, << "x" >> }

None == [ some |-> FALSE, s |-> << >> ]
Some(s) == [ some |-> TRUE, s |-> s ]

TaskStrings ==
    { << >>,
      << "calendar", ".", "get_events" >>,
      << "calendar", ".", "a", ".", "b" >>,
      << "calendar", "." >>,
      << "gmail", ".", "search_emails" >>,
      << "drive", ".", "list_files" >>,
      << "decision", ".", "analyze_situation" >>,
      << "data_pipeline", ".", "run" >>,
      << "backend", ".", "minutes" >>,
      << "backend", ".", "mindmap" >>,
      << "backend", ".", "minutes", ".", "x" >>,
      << "backend", ".", "other" >>,
      << "calendar" >>,
      << "calendarx", ".", "foo" >>,
      << "unknown", ".", "foo" >> }

Tasks == { None } \cup { Some(s) : s \in TaskStrings }

\* parameters: None, {} or {"a": 1}
Parameters == { JNull, JDict({}), JDict({ << "a", JNum(1) >> }) }

High == << "H", "i", "g", "h" >>
URGENT == << "U", "R", "G", "E", "N", "T" >>
urgent == << "u", "r", "g", "e", "n", "t" >>
low == << "l", "o", "w" >>
highest == << "h", "i", "g", "h", "e", "s", "t" >>

JsonBodies ==
    { JDict({}),
      JDict({ << "success", JBool(TRUE) >> }),
      JDict({ << "success", JBool(FALSE) >> }),
      JDict({ << "success", JBool(FALSE) >>, << "result", JDict({ << "urgencyLevel", JStr(High) >> }) >> }),
      JDict({ << "success", JNum(0) >> }),
      JDict({ << "success", JNull >>, << "urgencyLevel", JStr(urgent) >> }),
      JDict({ << "result", JDict({ << "urgencyLevel", JStr(High) >> }) >> }),
      JDict({ << "result", JDict({ << "urgencyLevel", JStr(low) >> }) >> }),
      JDict({ << "result", JDict({ << "urgencyLevel", JStr(highest) >> }) >> }),
      JDict({ << "result", JDict({ << "urgencyLevel", JNum(5) >> }) >> }),
      JDict({ << "result", JDict({ << "summary", JStr(<< "x" >>) >> }) >> }),
      JDict({ << "result", JDict({ << "urgencyLevel", JStr(low) >> }) >>,
              << "urgencyLevel", JStr(High) >> }),
      JDict({ << "result", JDict({}) >>, << "urgencyLevel", JStr(URGENT) >> }),
      JDict({ << "result", JNull >>, << "urgencyLevel", JStr(High) >> }),
      JDict({ << "urgencyLevel", JStr(URGENT) >> }),
      JDict({ << "urgencyLevel", JStr(low) >> }),
      JDict({ << "result", JStr(<< "t", "e", "x", "t" >>) >> }),
      JDict({ << "result", JList(<< JNum(1) >>) >>, << "urgencyLevel", JStr(High) >> }),
      JList(<< >>), JList(<< JNum(1) >>),
      JStr(<< >>), JStr(<< "x" >>),
      JNum(0), JNum(5), JNull, JBool(FALSE), JBool(TRUE) }

HttpErrorCodes == { 404, 500 }

Responses ==
    { Body("json", v) : v \in JsonBodies }
    \cup { Body("text", JStr(<< "o", "k" >>)), Body("bytes", JNull) }
    \cup { HttpError(c) : c \in HttpErrorCodes }
    \cup { UrlError, ReadTimeout }

----------------------------------------------------------------------------
(* The state machine *)

Init ==
    /\ pc = "idle"
    /\ input = << >>
    /\ task = None
    /\ params = JDict({})
    /\ trace_id = 1
    /\ tool_calls = << >>
    /\ errors = << >>
    /\ routed_task = << >>
    /\ decision_resp = Unset
    /\ next_action = Unbound
    /\ posts = << >>
    /\ resps = << >>
    /\ envelope = Unset
    /\ raised = Unset

\* lines 132-156: from the call of query to its first urlopen
query(inp, tsk, parameters, tid) ==
    /\ pc = "idle"
    /\ input' = inp
    /\ task' = tsk
    /\ params' = IF Truthy(parameters) THEN parameters ELSE JDict({})
    /\ trace_id' = tid
    /\ tool_calls' = << >>
    /\ routed_task' = IF tsk.some /\ tsk.s # << >> THEN tsk.s ELSE << >>
    /\ decision_resp' = Unset
    /\ next_action' = Unbound
    /\ resps' = << >>
    /\ envelope' = Unset
    /\ raised' = Unset
    /\ IF tsk.some /\ tsk.s # << >>
       THEN LET ex == _execute_task(tsk.s, params', tid)
            IN  IF ex.raised
                THEN /\ errors' = << ErrorRecord(tsk.s, str(ex.exc)) >>
                     /\ posts' = << AnalysisRequest(inp, tid) >>
                     /\ pc' = "decision_call"
                ELSE /\ errors' = << >>
                     /\ posts' = << ex.req >>
                     /\ pc' = "explicit_call"
       ELSE /\ errors' = << >>
            /\ posts' = << AnalysisRequest(inp, tid) >>
            /\ pc' = "decision_call"

\* lines 141-156: from the return of the explicit task's urlopen to the return
\* of query or to the urlopen of the automatic analysis
query_explicit(resp) ==
    /\ pc = "explicit_call"
    /\ resps' = Append(resps, resp)
    /\ LET r == _post_json(resp)
       IN  IF ~r.raised
           THEN /\ tool_calls' = Append(tool_calls, ToolCall(task.s, params, r.value))
                /\ envelope' = Envelope(trace_id, input, task.s, tool_calls', r.value, errors)
                /\ pc' = "returned"
                /\ UNCHANGED << errors, posts >>
           ELSE /\ errors' = Append(errors, ErrorRecord(task.s, str(r.exc)))
                /\ posts' = Append(posts, AnalysisRequest(input, trace_id))
                /\ pc' = "decision_call"
                /\ UNCHANGED << tool_calls, envelope >>
    /\ UNCHANGED << input, task, params, trace_id, routed_task, decision_resp,
                    next_action, raised >>

\* lines 156-187: from the return of the analysis' urlopen to the return of
\* query, to the exception that leaves it, or to the urlopen of the follow-up
query_decision(resp, now1, now2) ==
    /\ pc = "decision_call"
    /\ now1 <= now2
    /\ resps' = Append(resps, resp)
    /\ LET r == _post_json(resp)
           call == ToolCall(DecisionTask, JDict({ << "context", JStr(_safe_str(input)) >> }), r.value)
           na == _suggest_next_action(r.value, now1, now2)
           ex == _execute_task(na.task, na.params, trace_id)
       IN  IF r.raised
           THEN \* line 156 is in no try block
                /\ raised' = r.exc
                /\ pc' = "raised"
                /\ UNCHANGED << tool_calls, errors, decision_resp, next_action, posts, envelope >>
           ELSE /\ decision_resp' = r.value
                /\ tool_calls' = Append(tool_calls, call)
                /\ IF _ok(r.value).raised
                   THEN \* line 159 is in no try block
                        /\ raised' = _ok(r.value).exc
                        /\ pc' = "raised"
                        /\ UNCHANGED << errors, next_action, posts, envelope >>
                   ELSE IF ~_ok(r.value).value
                   THEN /\ errors' = Append(errors, ErrorRecord(DecisionTask, str(r.value)))
                        /\ envelope' = Envelope(trace_id, input, routed_task, tool_calls',
                                                JDict({ << "note", JStr(<< "decision analysis failed" >>) >> }),
                                                errors')
                        /\ pc' = "returned"
                        /\ UNCHANGED << next_action, posts, raised >>
                   ELSE /\ next_action' = na
                        /\ IF na.some /\ ~ex.raised
                           THEN /\ posts' = Append(posts, ex.req)
                                /\ pc' = "followup_call"
                                /\ UNCHANGED << errors, envelope, raised >>
                           ELSE /\ errors' = IF na.some
                                             THEN Append(errors, ErrorRecord(na.task, str(ex.exc)))
                                             ELSE errors
                                /\ envelope' = Envelope(trace_id, input, RoutedTaskOut(routed_task, na),
                                                        tool_calls', r.value, errors')
                                /\ pc' = "returned"
                                /\ UNCHANGED << posts, raised >>
    /\ UNCHANGED << input, task, params, trace_id, routed_task >>

\* lines 175-187: from the return of the follow-up's urlopen to the return of query
query_followup(resp) ==
    /\ pc = "followup_call"
    /\ resps' = Append(resps, resp)
    /\ LET r == _post_json(resp)
       IN  /\ IF ~r.raised
              THEN /\ tool_calls' = Append(tool_calls,
                                           ToolCall(next_action.task, next_action.params, r.value))
                   /\ UNCHANGED errors
              ELSE /\ errors' = Append(errors, ErrorRecord(next_action.task, str(r.exc)))
                   /\ UNCHANGED tool_calls
           /\ envelope' = Envelope(trace_id, input, RoutedTaskOut(routed_task, next_action),
                                   tool_calls', decision_resp, errors')
           /\ pc' = "returned"
    /\ UNCHANGED << input, task, params, trace_id, routed_task, decision_resp,
                    next_action, posts, raised >>

Next ==
    \/ \E inp \in Inputs, tsk \in Tasks, parameters \in Parameters, tid \in TraceIds :
            query(inp, tsk, parameters, tid)
    \/ \E resp \in Responses : query_explicit(resp)
    \/ \E resp \in Responses, now1 \in Clock, now2 \in Clock :
            query_decision(resp, now1, now2)
    \/ \E resp \in Responses : query_followup(resp)

Spec == Init /\ [][Next]_vars

----------------------------------------------------------------------------
(* Vocabulary of the properties *)

EnvelopeKeys == { "traceId", "input", "routedTask", "toolCalls", "output", "errors" }

ExplicitTask == task.some /\ task.s # << >>

Namespaces == { "calendar", "gmail", "drive", "decision", "data_pipeline" }
BackendMinutes == << "backend", ".", "minutes" >>
BackendMindmap == << "backend", ".", "mindmap" >>

\* the seven recognized forms of a task string
RecognizedForm(s) ==
    \/ Len(s) >= 2 /\ s[1] \in Namespaces /\ s[2] = "."
    \/ s \in { BackendMinutes, BackendMindmap }

\* the request a dispatch of (s, prm) is to post
ExpectedRequest(s, prm, tid) ==
    IF s = BackendMinutes
    THEN Request(BACKEND_BASE \o << "/api/agent/minutes/generate" >>, prm, tid)
    ELSE IF s = BackendMindmap
    THEN Request(BACKEND_BASE \o << "/api/speech/generate-mindmap" >>, prm, tid)
    ELSE Request(CF_ENDPOINTS[s[1]],
                 JDict({ << "action", JStr(SubSeq(s, 3, Len(s))) >>, << "parameters", prm >> }),
                 tid)

HasRecordFor(records, tsk) == \E i \in 1..Len(records) : records[i].task = tsk

FailedResponse(resp) == resp.kind \in { "HTTPError", "URLError", "timeout" }

Note == JDict({ << "note", JStr(<< "decision analysis failed" >>) >> })

\* the failure predicate of the decision call
IsFailure(r) ==
    \/ ~Truthy(r)
    \/ IsDict(r) /\ Has(r, "success") /\ Get(r, "success") = JBool(FALSE)

CasePairs ==
    { << "h", "H" >>, << "i", "I" >>, << "g", "G" >>, << "u", "U" >>,
      << "r", "R" >>, << "e", "E" >>, << "n", "N" >>, << "t", "T" >> }
EqIgnoreCase(a, b) ==
    /\ Len(a) = Len(b)
    /\ \A i \in 1..Len(a) :
          a[i] = b[i] \/ << a[i], b[i] >> \in CasePairs \/ << b[i], a[i] >> \in CasePairs

\* what the heuristic is to return for a decision result whose urgency is
\* taken from the mapping src
HeuristicFrom(src) ==
    IF ~IsDict(src) THEN "none"
    ELSE IF /\ Has(src, "urgencyLevel")
            /\ Get(src, "urgencyLevel").t = "str"
            /\ \/ EqIgnoreCase(Get(src, "urgencyLevel").v, << "h", "i", "g", "h" >>)
               \/ EqIgnoreCase(Get(src, "urgencyLevel").v, << "u", "r", "g", "e", "n", "t" >>)
         THEN "calendar"
         ELSE "gmail"

AgreesWith(na, expected) ==
    IF expected = "calendar"
    THEN /\ na.some
         /\ na.task = << "calendar", ".", "get_events" >>
         /\ Has(na.params, "maxResults")
         /\ Get(na.params, "maxResults") = JNum(50)
    ELSE IF expected = "gmail"
    THEN na = Action(<< "gmail", ".", "search_emails" >>,
                     JDict({ << "query", JStr(<< "meeting" >>) >>, << "maxResults", JNum(20) >> }))
    ELSE ~na.some

----------------------------------------------------------------------------
(* Properties *)

\* C1: query never raises to its caller; it always returns an envelope with
\* the six keys traceId, input, routedTask, toolCalls, output, errors, where
\* toolCalls and errors are sequences.
C1_QueryNeverRaises ==
    /\ pc # "raised"
    /\ pc = "returned" =>
          /\ DOMAIN envelope = EnvelopeKeys
          /\ DOMAIN envelope.toolCalls = 1..Len(envelope.toolCalls)
          /\ DOMAIN envelope.errors = 1..Len(envelope.errors)

\* C2: when query is called with an explicit recognized task and the endpoint
\* of that task fails (HTTP error status or transport failure), the envelope
\* has exactly one error record, for that task, and exactly one tool call.
C2_ExplicitFailureOneErrorOneCall ==
    ( /\ pc = "returned"
      /\ ExplicitTask
      /\ RecognizedForm(task.s)
      /\ FailedResponse(resps[1]) )
    => /\ Len(envelope.errors) = 1
       /\ envelope.errors[1].task = task.s
       /\ Len(envelope.toolCalls) = 1

C4_AtMostTwoPosts ==
    /\ Len(posts) <= 2
    /\ Len(posts) - Len(resps) <= 1

\* C5: an explicit task that matches none of the seven recognized forms
\* fails with the unknown-task error carrying the task before any outbound
\* call is made for it (the first request of the invocation is already the
\* automatic analysis, and no more than the analysis and its follow-up are
\* posted), and the returned envelope's errors holds a record for the task.
C5_UnknownTaskFailsBeforeAnyCall ==
    ( pc # "idle" /\ ExplicitTask /\ ~RecognizedForm(task.s) )
    => /\ Len(errors) >= 1
       /\ errors[1] = ErrorRecord(task.s, str(Exception("ValueError", << "Unknown task: " >> \o task.s)))
       /\ posts[1] = AnalysisRequest(input, trace_id)
       /\ Len(posts) <= 2
       /\ Len(posts) = 2 => Last(posts) = ExpectedRequest(next_action.task, next_action.params, trace_id)
       /\ pc = "returned" => HasRecordFor(envelope.errors, task.s)

C5_Witness ==
    /\ pc = "returned"
    /\ task = Some(<< "unknown", ".", "foo" >>)
    /\ HasRecordFor(envelope.errors, << "unknown", ".", "foo" >>)
    /\ Len(posts) = 2

\* C6: a dispatch of a task <namespace>.<action> posts exactly once, to the
\* endpoint of that namespace, the body {action: text after the first dot,
\* parameters}; a dispatch of backend.minutes or backend.mindmap posts the
\* parameters verbatim, exactly once, to the fixed backend path.  This holds
\* for the dispatch of the explicit task and for the dispatch of the follow-up.
C6_DispatchPostsOnceToItsEndpoint ==
    /\ ( pc # "idle" /\ ExplicitTask /\ RecognizedForm(task.s) )
       => /\ posts[1] = ExpectedRequest(task.s, params, trace_id)
          /\ pc = "explicit_call" => Len(posts) = 1 /\ resps = << >>
          /\ ( pc = "returned" /\ Len(resps) = 1 ) => Len(posts) = 1
    /\ pc = "followup_call"
       => /\ Last(posts) = ExpectedRequest(next_action.task, next_action.params, trace_id)
          /\ Len(posts) = Len(resps) + 1

C6_Witness ==
    /\ pc = "returned"
    /\ task = Some(<< "calendar", ".", "get_events" >>)
    /\ params = JDict({ << "a", JNum(1) >> })
    /\ posts = << Request(CF_ENDPOINTS["calendar"],
                          JDict({ << "action", JStr(<< "get_events" >>) >>,
                                  << "parameters", JDict({ << "a", JNum(1) >> }) >> }),
                          trace_id) >>

\* where the original statement of C7 takes the urgency from: the nested
\* result when the decision result has one (a null counts as none), the
\* top-level mapping otherwise
OriginalSource(d) ==
    IF Has(d, "result") /\ Get(d, "result") # JNull THEN Get(d, "result") ELSE d

\* where the amended statement takes it from: the nested result when it is
\* present and truthy, the top-level mapping when it is absent or falsy
AmendedSource(d) ==
    IF Has(d, "result") /\ Truthy(Get(d, "result")) THEN Get(d, "result") ELSE d

\* C7 (as stated): the heuristic returns calendar.get_events with maxResults
\* 50 exactly when the urgencyLevel of the nested result mapping (of the
\* top-level mapping when there is no nested result) is a string equal to
\* "high" or "urgent" ignoring case, gmail.search_emails with query "meeting"
\* and maxResults 20 for every other result urgency can be extracted from,
\* and no action on an extraction error.
C7_HeuristicAsStated ==
    next_action.bound => AgreesWith(next_action, HeuristicFrom(OriginalSource(decision_resp)))

\* C7 (amended): the same, with the urgencyLevel taken from the nested result
\* when that is present and truthy, and from the top-level mapping when the
\* nested result is absent or falsy (null, empty mapping, ...); the
\* extraction error is a truthy nested result that is not a mapping.
C7_HeuristicAmended ==
    next_action.bound => AgreesWith(next_action, HeuristicFrom(AmendedSource(decision_resp)))

C7_Witness ==
    /\ next_action.bound
    /\ decision_resp = JDict({ << "result", JDict({}) >>, << "urgencyLevel", JStr(URGENT) >> })
    /\ next_action.task = << "calendar", ".", "get_events" >>
    /\ Get(next_action.params, "maxResults") = JNum(50)

\* C8: on the automatic path, when the result of decision.analyze_situation is
\* a failure (falsy, or a mapping whose success key is present and false),
\* query appends an error record for decision.analyze_situation and returns
\* at once with output {note: "decision analysis failed"} and no further
\* outbound call; a mapping without a success key (and not empty) is a
\* success and goes on to the heuristic.
C8_DecisionFailureReturnsAtOnce ==
    decision_resp # Unset
    => /\ IsFailure(decision_resp)
          => /\ pc = "returned"
             /\ envelope.output = Note
             /\ Len(envelope.errors) >= 1
             /\ Last(envelope.errors).task = DecisionTask
             /\ Last(posts) = AnalysisRequest(input, trace_id)
             /\ Len(resps) = Len(posts)
             /\ ~next_action.bound
       /\ ( IsDict(decision_resp) /\ Truthy(decision_resp) /\ ~Has(decision_resp, "success") )
          => /\ next_action.bound
             /\ ~HasRecordFor(errors, DecisionTask) \/ task = Some(DecisionTask)
             /\ pc = "returned" => envelope.output = decision_resp

C8_Witness ==
    /\ pc = "returned"
    /\ ~ExplicitTask
    /\ decision_resp = JDict({ << "success", JBool(FALSE) >> })
    /\ envelope.output = Note
    /\ Len(posts) = 1

\* C9: on the automatic path, a follow-up the heuristic produced is dispatched
\* exactly once and has a tool-call entry, and whenever the follow-up call
\* fails (HTTP error status, transport failure or timeout) the envelope's
\* errors holds a record whose task is the follow-up task.
C9_FollowupFailureRecorded ==
    ( pc = "returned" /\ next_action.some )
    => /\ Last(posts) = ExpectedRequest(next_action.task, next_action.params, trace_id)
       /\ HasRecordFor(envelope.toolCalls, next_action.task)
       /\ FailedResponse(Last(resps)) => HasRecordFor(envelope.errors, next_action.task)

\* C10: in every returned envelope of a call with a non-empty explicit task,
\* routedTask is that task, also when the explicit dispatch failed and the
\* automatic path ran (whether or not the heuristic produced a follow-up);
\* with no explicit task and a follow-up produced, routedTask is the
\* follow-up task.
C10_RoutedTask ==
    pc = "returned"
    => /\ ExplicitTask => envelope.routedTask = task.s
       /\ ( ~ExplicitTask /\ next_action.some ) => envelope.routedTask = next_action.task

====
